---- MODULE Spec2Model ----
(***************************************************************************)
(* Order lifecycle of the ice-cream shop front end, in its two variants:   *)
(*   "sheets"    - src/unnamed/part_000, orders kept by a spreadsheet      *)
(*                 webhook (one POST endpoint), no sign-in gate;           *)
(*   "firestore" - src/script.js, orders kept as Firestore documents,      *)
(*                 order page gated by Firebase sign-in.                   *)
(* Optional values are sequences of length 0 or 1. A message shown by      *)
(* alert() is the sequence of the string pieces the code concatenates.     *)
(***************************************************************************)
EXTENDS Integers, Sequences, FiniteSets, TLC

(* ------------------------------ bounds --------------------------------- *)
\* submit events of the order form in one behaviour
MaxSubmits == 2
\* clock ticks (milliseconds passing) in one behaviour
MaxTicks == 1
\* edits of the order form in one behaviour
MaxEdits == 1
\* entries of an admin into the dashboard in one behaviour
MaxLoads == 2
\* clicks on a "Mark as Complete" button in one behaviour
MaxClicks == 2
\* largest quantity chosen on the product detail page
MaxQty == 2
\* most orders persisted by direct adapter calls
MaxRows == 2
\* calls of showOrdersDashboard in one behaviour of the admin gate
MaxEntries == 3

\* the clock's first reading: one below a carry of its decimal digits
ClockStart == 9

(* --------------------------- input domains ----------------------------- *)
Variants == {"sheets", "firestore"}

\* the browsers that have the admin page open
Admins == {"a1", "a2"}

\* the catalog the detail page reads (products.json is data, not code)
Catalog ==
  { [id |-> 1, name |-> "Vanilla", price |-> 0, image |-> "v.png"],
    [id |-> 2, name |-> "Mango", price |-> 3, image |-> "m.png"] }

UserEmail == "ann@scoop.io"

\* what the user may type into the order form: every combination of empty
\* and filled required fields for a pickup, and a delivery to an address
FormInputs ==
  [ name : {"", "Ann"}, email : {"", UserEmail}, phone : {"", "555"},
    address : {""}, deliveryType : {"pickup"} ]
  \cup { [ name |-> "Ann", email |-> UserEmail, phone |-> "555",
           address |-> "1 Cone St", deliveryType |-> "delivery" ] }

EmptyForm ==
  [ name |-> "", email |-> "", phone |-> "", address |-> "",
    deliveryType |-> "pickup" ]

\* what the client sees of one backend request
\* "ok": processed and answered; "nonsuccess": answered {success: false};
\* "transport": the request never arrived (fetch rejects); "lost": processed,
\* but the answer never arrived (fetch rejects); "unparsable": answered with a
\* body response.json() rejects
Outcomes == {"ok", "nonsuccess", "transport", "lost", "unparsable"}

\* a Firestore call resolves or rejects
BackendOutcomes(v) == IF v = "sheets" THEN Outcomes ELSE {"ok", "transport"}

(* ----------------------------- the state ------------------------------- *)
VARIABLES
  variant,    \* which script the pages load
  now,        \* the clock, in milliseconds
  db,         \* the persisted orders: sequence of [key, data, createdAt]
  page,       \* the page the customer's tab shows
  signedIn,   \* Identity Provider: a user is signed in
  navLink,    \* the navigation auth link: [text, href, onclick]
  listening,  \* checkAuthStatus has registered its auth state listener
  form,       \* the order form's fields
  nEdits,     \* form edits so far
  cart,       \* localStorage "cartItem": <<>> or <<stored string>>
  modal,      \* the confirmation modal is visible
  alertMsg,   \* the last message shown by alert(), <<>> if none yet
  saves,      \* saveOrder calls in flight of the customer's page
  nSubmit,    \* submit events so far
  issued,     \* issued[s]: createOrder calls issued for submit event s
  ev,         \* the step just taken: [type, sid, ok, who]
  view,       \* view[a]: admin a's rendered order list: [cards, note]
  loads,      \* loads[a]: admin a's loadAndDisplayOrders runs in flight
  upds,       \* upds[a]: admin a's updateOrderStatus calls in flight
  adminAlert, \* adminAlert[a]: the last message alert() showed admin a
  lastRender, \* lastRender[a]: [fetched, click, older] of the run that rendered
              \* view[a]; older: the runs in flight that were started before it
  nLoads,     \* dashboard entries so far
  nClicks,    \* clicks on a "Mark as Complete" button so far
  clicked,    \* clicked[c]: the id of the order whose button click c hit
  invoked,    \* invoked[c]: updateOrderStatus calls made for click c
  probe,      \* the last adapter call made directly: [op, outcome, failed, result]
  protocol,   \* window.location.protocol of the customer's pages
  allProducts, \* the global allProducts: the value loadProducts left in it
  grid,       \* the product grid's content: a message or the cards' names
  selected,   \* localStorage "selectedProductId": <<>> or <<id>>
  qty,        \* the quantity input's value on the product detail page
  lastFetch,  \* the last run of loadProducts: [outcome, body, settled, shown]
  adminFlag,  \* adminFlag[a]: localStorage "adminAuthenticated" is "true"
  gate        \* gate[a]: the sections, listeners and password field of a's page

adminVars ==
  << view, loads, upds, adminAlert, lastRender, nLoads, nClicks, clicked,
     invoked, probe >>

customerVars ==
  << variant, now, db, page, signedIn, navLink, listening, form, nEdits,
     cart, modal, alertMsg, saves, nSubmit, issued >>

catalogVars == << protocol, allProducts, grid, selected, qty, lastFetch >>

gateVars == << adminFlag, gate >>

vars ==
  << variant, now, db, page, signedIn, navLink, listening, form, nEdits,
     cart, modal, alertMsg, saves, nSubmit, issued, ev, adminVars,
     catalogVars, gateVars >>

(* ------------------------ values and conversions ----------------------- *)
\* JS truthiness of a form value (a string)
Truthy(s) == s # ""

\* Date.prototype.toISOString, to the width the clock needs: the decimal
\* digits of the millisecond count, most significant first
ToISOString(t) == << t \div 10, t % 10 >>

\* new Date(isoString), as the millisecond count
DateParse(s) == s[1] * 10 + s[2]

\* JSON.stringify of the cart item: the members in the order they are written
JsonStringifyItem(item) ==
  << << "id", item.id >>, << "name", item.name >>, << "price", item.price >>,
     << "quantity", item.quantity >>, << "image", item.image >> >>

RECURSIVE JsonMember(_, _)
JsonMember(s, k) ==
  IF s[1][1] = k THEN s[1][2] ELSE JsonMember(Tail(s), k)

\* JSON.parse of a stored cart item
JsonParseItem(s) ==
  [ id |-> JsonMember(s, "id"), name |-> JsonMember(s, "name"),
    price |-> JsonMember(s, "price"), quantity |-> JsonMember(s, "quantity"),
    image |-> JsonMember(s, "image") ]

\* Array.prototype.join over the pieces of a message
RECURSIVE Join(_, _)
Join(xs, sep) ==
  IF Len(xs) = 0 THEN << >>
  ELSE IF Len(xs) = 1 THEN << xs[1] >>
  ELSE << xs[1], sep >> \o Join(Tail(xs), sep)

(* ------------------------------ messages ------------------------------- *)
MsgPleaseLogIn == << "Please log in to place an order." >>
MsgSaveError == << "There was an error saving your order. Please try again." >>
MsgNoItems == << "No items in cart. Please select an item first." >>
MsgMissingPrefix == "Please fill in the following required fields: "

\* mutant: the phone check is left out
MissingFields_NoPhone(f) ==
  (IF ~Truthy(f.name) THEN << "Name" >> ELSE << >>)
  \o (IF ~Truthy(f.email) THEN << "Email" >> ELSE << >>)

\* the missingFields array of the submit handler
MissingFields(f) ==
  (IF ~Truthy(f.name) THEN << "Name" >> ELSE << >>)
  \o (IF ~Truthy(f.email) THEN << "Email" >> ELSE << >>)
  \o (IF ~Truthy(f.phone) THEN << "Phone" >> ELSE << >>)

MsgMissing(f) ==
  << MsgMissingPrefix >> \o Join(MissingFields(f), ", ") \o << "." >>

(* ---------------------- the order page's handlers ---------------------- *)
\* mutant: the total adds where it should multiply
BuildOrder_SumTotal(f, item, t1, t2) ==
  [ id |-> t1,
    customerId |-> f.email,
    customerName |-> f.name,
    customerEmail |-> f.email,
    customerPhone |-> f.phone,
    customerAddress |-> f.address,
    deliveryType |-> f.deliveryType,
    items |-> << [ id |-> item.id, name |-> item.name, price |-> item.price,
                   quantity |-> item.quantity ] >>,
    total |-> item.price + item.quantity,
    orderDate |-> ToISOString(t2),
    status |-> "pending" ]

\* mutant: the cart item is copied whole into the order, image included
BuildOrder_WholeItem(f, item, t1, t2) ==
  [ id |-> t1,
    customerId |-> f.email,
    customerName |-> f.name,
    customerEmail |-> f.email,
    customerPhone |-> f.phone,
    customerAddress |-> f.address,
    deliveryType |-> f.deliveryType,
    items |-> << item >>,
    total |-> item.price * item.quantity,
    orderDate |-> ToISOString(t2),
    status |-> "pending" ]

\* the order object literal of the submit handler; t1 is Date.now(), t2 the
\* time read by new Date()
BuildOrder(f, item, t1, t2) ==
  [ id |-> t1,
    customerId |-> f.email,
    customerName |-> f.name,
    customerEmail |-> f.email,
    customerPhone |-> f.phone,
    customerAddress |-> f.address,
    deliveryType |-> f.deliveryType,
    items |-> << [ id |-> item.id, name |-> item.name, price |-> item.price,
                   quantity |-> item.quantity ] >>,
    total |-> item.price * item.quantity,
    orderDate |-> ToISOString(t2),
    status |-> "pending" ]

\* mutant: the cart is looked at before the required fields
SubmitHandler_CartFirst(f, stored, t1, t2) ==
  IF stored = << >>
  THEN [ call |-> << >>, alert |-> MsgNoItems ]
  ELSE IF Truthy(f.name) /\ Truthy(f.email) /\ Truthy(f.phone)
  THEN [ call |-> << BuildOrder(f, JsonParseItem(stored[1]), t1, t2) >>,
         alert |-> << >> ]
  ELSE [ call |-> << >>, alert |-> MsgMissing(f) ]

\* the submit handler up to the call of saveOrder: the order handed to
\* saveOrder (if any) and the message alerted (if any)
SubmitHandler(f, stored, t1, t2) ==
  IF Truthy(f.name) /\ Truthy(f.email) /\ Truthy(f.phone)
  THEN IF stored # << >>
       THEN [ call |-> << BuildOrder(f, JsonParseItem(stored[1]), t1, t2) >>,
              alert |-> << >> ]
       ELSE [ call |-> << >>, alert |-> MsgNoItems ]
  ELSE [ call |-> << >>, alert |-> MsgMissing(f) ]

\* mutant: the cart item is kept after a successful save
OnSaveSettled_KeepCart(r) ==
  IF r.kind = "return" /\ r.value = TRUE
  THEN [ showModal |-> TRUE, removeCart |-> FALSE, alert |-> << >> ]
  ELSE [ showModal |-> FALSE, removeCart |-> FALSE, alert |-> MsgSaveError ]

\* mutant: the cart item is removed however the save ended
OnSaveSettled_AlwaysRemove(r) ==
  IF r.kind = "return" /\ r.value = TRUE
  THEN [ showModal |-> TRUE, removeCart |-> TRUE, alert |-> << >> ]
  ELSE [ showModal |-> FALSE, removeCart |-> TRUE, alert |-> MsgSaveError ]

\* the .then / .catch continuation of saveOrder(order) in the submit handler;
\* r is how the promise settled: [kind |-> "return", value] or [kind |-> "throw"]
OnSaveSettled(r) ==
  IF r.kind = "return"
  THEN IF r.value = TRUE
       THEN [ showModal |-> TRUE, removeCart |-> TRUE, alert |-> << >> ]
       ELSE [ showModal |-> FALSE, removeCart |-> FALSE, alert |-> MsgSaveError ]
  ELSE [ showModal |-> FALSE, removeCart |-> FALSE, alert |-> MsgSaveError ]

(* ------------------------- the navigation link ------------------------- *)
LoginLink == [ text |-> "Login", href |-> "login.html", onclick |-> "null" ]

\* updateAuthUI: the link is looked up by its href "login.html"
updateAuthUI(link, isSignedIn) ==
  IF link.href # "login.html" THEN link
  ELSE IF isSignedIn
       THEN [ text |-> "Logout", href |-> "#", onclick |-> "signOut" ]
       ELSE LoginLink

(* ---------------------------- the backends ----------------------------- *)
Return(v) == [ kind |-> "return", value |-> v ]
Throw == [ kind |-> "throw", value |-> FALSE ]

\* a try block's result r under a catch block that returns v
TryCatch(r, v) == IF r.kind = "throw" THEN Return(v) ELSE r

Keys(d) == { d[i].key : i \in DOMAIN d }

\* the webhook's saveOrder action: a new row, keyed by the order's id, which
\* the data model requires to be unique
SheetsSaveOrder(d, order) ==
  IF order.id \in Keys(d)
  THEN [ db |-> d, reply |-> [ success |-> FALSE ] ]
  ELSE [ db |-> Append(d, [ key |-> order.id, data |-> order, createdAt |-> 0 ]),
         reply |-> [ success |-> TRUE ] ]

\* collection('orders').add(data): a new document under a fresh identifier
FirestoreAdd(d, data) ==
  Append(d, [ key |-> 100 + Len(d) + 1, data |-> data, createdAt |-> Len(d) + 1 ])

\* saveOrder's try block, given what its request came to
saveOrderBody(v, outcome) ==
  IF v = "sheets"
  THEN CASE outcome \in {"transport", "lost"} -> Throw
         [] outcome = "unparsable" -> Throw
         [] outcome = "nonsuccess" -> Return(FALSE)
         [] OTHER -> Return(TRUE)
  ELSE IF outcome = "ok" THEN Return(TRUE) ELSE Throw

saveOrder(v, outcome) == TryCatch(saveOrderBody(v, outcome), FALSE)

\* what a saveOrder request does to the persisted orders, and what the client
\* sees of it
SaveOrderAtBackend(v, d, order, outcome) ==
  IF outcome = "ok"
  THEN IF v = "sheets"
       THEN LET r == SheetsSaveOrder(d, order)
            IN [ db |-> r.db,
                 outcome |-> IF r.reply.success THEN "ok" ELSE "nonsuccess" ]
       ELSE [ db |-> FirestoreAdd(d, order), outcome |-> "ok" ]
  ELSE IF outcome = "lost"
  THEN [ db |-> SheetsSaveOrder(d, order).db, outcome |-> outcome ]
  ELSE [ db |-> d, outcome |-> outcome ]


(* ----------------------- the webhook's other actions ------------------- *)
\* getAllOrders action: every row, in sheet order
SheetsGetAllOrders(d) == [ i \in DOMAIN d |-> d[i].data ]

\* getOrderById action: the row keyed by the id, if there is one
SheetsGetOrderById(d, id) ==
  IF \E i \in DOMAIN d : d[i].key = id
  THEN << d[CHOOSE i \in DOMAIN d : d[i].key = id].data >>
  ELSE << >>

\* updateOrder action: the row keyed by the order's id is replaced whole
SheetsUpdateOrder(d, order) ==
  IF \E i \in DOMAIN d : d[i].key = order.id
  THEN [ db |-> [ d EXCEPT ![CHOOSE i \in DOMAIN d : d[i].key = order.id].data
                             = order ],
         reply |-> [ success |-> TRUE ] ]
  ELSE [ db |-> d, reply |-> [ success |-> FALSE ] ]

(* ------------------------ the adapter's read side ---------------------- *)
\* { id: doc.id, ...data }: a member of data replaces the one written before it
WithDocId(doc) ==
  [ k \in DOMAIN doc.data \cup {"id"} |->
      IF k \in DOMAIN doc.data THEN doc.data[k] ELSE doc.key ]

Reverse(xs) == [ i \in DOMAIN xs |-> xs[Len(xs) + 1 - i] ]

\* orderBy('createdAt', 'desc').get(), each document pushed with its id
FirestoreGetAll(d) == Reverse([ i \in DOMAIN d |-> WithDocId(d[i]) ])

\* collection('orders').doc(orderId).get()
FirestoreGet(d, id) ==
  IF \E i \in DOMAIN d : d[i].key = id
  THEN << WithDocId(d[CHOOSE i \in DOMAIN d : d[i].key = id]) >>
  ELSE << >>

\* what a getAllOrders request is answered with
GetAllAtBackend(v, d, outcome) ==
  IF outcome = "ok"
  THEN IF v = "sheets" THEN SheetsGetAllOrders(d) ELSE FirestoreGetAll(d)
  ELSE << >>

\* getAllOrders' try block, given what its request came to and the orders in
\* the answer
getAllOrdersBody(v, outcome, orders) ==
  IF v = "sheets"
  THEN CASE outcome \in {"transport", "lost"} -> Throw
         [] outcome = "unparsable" -> Throw
         [] outcome = "nonsuccess" -> Return(<< >>)
         [] OTHER -> Return(orders)
  ELSE IF outcome = "ok" THEN Return(orders) ELSE Throw

getAllOrders(v, outcome, orders) ==
  TryCatch(getAllOrdersBody(v, outcome, orders), << >>)

\* what a getOrderById request is answered with: the client's outcome and the
\* order found (none: {success: false} from the webhook, a document that
\* does not exist in Firestore)
GetByIdAtBackend(v, d, id, outcome) ==
  IF outcome = "ok"
  THEN IF v = "sheets"
       THEN LET o == SheetsGetOrderById(d, id)
            IN [ outcome |-> IF o = << >> THEN "nonsuccess" ELSE "ok",
                 order |-> o ]
       ELSE [ outcome |-> "ok", order |-> FirestoreGet(d, id) ]
  ELSE [ outcome |-> outcome, order |-> << >> ]

\* getOrderById's try block; an absent order (null) is the empty sequence
getOrderByIdBody(v, outcome, order) ==
  IF v = "sheets"
  THEN CASE outcome \in {"transport", "lost"} -> Throw
         [] outcome = "unparsable" -> Throw
         [] outcome = "nonsuccess" -> Return(<< >>)
         [] OTHER -> Return(order)
  ELSE IF outcome = "ok" THEN Return(order) ELSE Throw

getOrderById(v, outcome, order) ==
  TryCatch(getOrderByIdBody(v, outcome, order), << >>)

(* ------------------------ the adapter's write side --------------------- *)
\* collection('orders').doc(id).update(fields): the named fields of an existing
\* document are replaced; there is no document to create
FirestoreUpdate(d, id, fields) ==
  IF \E i \in DOMAIN d : d[i].key = id
  THEN LET i == CHOOSE j \in DOMAIN d : d[j].key = id
       IN [ db |-> [ d EXCEPT ![i].data =
                       [ k \in DOMAIN d[i].data \cup DOMAIN fields |->
                           IF k \in DOMAIN fields THEN fields[k]
                           ELSE d[i].data[k] ] ],
            found |-> TRUE ]
  ELSE [ db |-> d, found |-> FALSE ]

\* const { id, ...orderData } = updatedOrder
WithoutId(order) == [ k \in DOMAIN order \ {"id"} |-> order[k] ]

\* what an updateOrder request does to the persisted orders, and what the
\* client sees of it
UpdateOrderAtBackend(v, d, order, outcome) ==
  IF v = "sheets"
  THEN IF outcome \in {"ok", "lost"}
       THEN LET r == SheetsUpdateOrder(d, order)
            IN [ db |-> r.db,
                 outcome |-> IF outcome = "lost" THEN "lost"
                             ELSE IF r.reply.success THEN "ok" ELSE "nonsuccess" ]
       ELSE [ db |-> d, outcome |-> outcome ]
  ELSE IF outcome = "ok"
       THEN LET r == FirestoreUpdate(d, order.id, WithoutId(order))
            IN [ db |-> r.db, outcome |-> IF r.found THEN "ok" ELSE "notfound" ]
       ELSE [ db |-> d, outcome |-> outcome ]

\* updateOrder's try block, given what its request came to
updateOrderBody(v, outcome) ==
  IF v = "sheets"
  THEN CASE outcome \in {"transport", "lost"} -> Throw
         [] outcome = "unparsable" -> Throw
         [] outcome = "nonsuccess" -> Return(FALSE)
         [] OTHER -> Return(TRUE)
  ELSE IF outcome = "ok" THEN Return(TRUE) ELSE Throw

\* mutant: the catch block is missing
updateOrder_NoCatch(v, outcome) == updateOrderBody(v, outcome)

updateOrder(v, outcome) == TryCatch(updateOrderBody(v, outcome), FALSE)

\* the value of a function that ends without a return statement, and a
\* boolean, as values that can be told apart (typeof)
Undefined == [ type |-> "undefined" ]

JsBoolean(b) == [ type |-> "boolean", b |-> b ]

\* updateOrderStatus' try block as its caller sees it: result is "throw" when
\* an awaited call rejected
updateOrderStatusBody(result) ==
  IF result = "throw" THEN Throw ELSE Return(Undefined)

updateOrderStatus(result) == TryCatch(updateOrderStatusBody(result), Undefined)

\* mutant: the status is written to every document
FirestoreSetStatusAtBackend_AllDocs(d, id, newStatus, outcome) ==
  IF outcome = "ok"
  THEN [ db |-> [ i \in DOMAIN d |->
                    [ d[i] EXCEPT !.data.status = newStatus ] ],
         result |-> IF id \in Keys(d) THEN "success" ELSE "throw" ]
  ELSE [ db |-> d, result |-> "throw" ]

\* doc(orderId).update({status}) of the Firestore updateOrderStatus
FirestoreSetStatusAtBackend(d, id, newStatus, outcome) ==
  IF outcome = "ok"
  THEN LET r == FirestoreUpdate(d, id, [ status |-> newStatus ])
       IN [ db |-> r.db, result |-> IF r.found THEN "success" ELSE "throw" ]
  ELSE [ db |-> d, result |-> "throw" ]

(* ------------------------- the admin dashboard ------------------------- *)
\* mutant: the comparator's operands are swapped (oldest first)
CompareOrders_Ascending(a, b) == DateParse(a.orderDate) - DateParse(b.orderDate)

\* the comparator of orders.sort: new Date(b.orderDate) - new Date(a.orderDate)
CompareOrders(a, b) == DateParse(b.orderDate) - DateParse(a.orderDate)

\* Array.prototype.sort is stable: an element moves in front of exactly those
\* the comparator puts after it
RECURSIVE InsertOrder(_, _)
InsertOrder(sorted, x) ==
  IF sorted = << >> THEN << x >>
  ELSE IF CompareOrders(sorted[1], x) > 0 THEN << x >> \o sorted
  ELSE << sorted[1] >> \o InsertOrder(Tail(sorted), x)

RECURSIVE SortFrom(_, _)
SortFrom(sorted, rest) ==
  IF rest = << >> THEN sorted
  ELSE SortFrom(InsertOrder(sorted, rest[1]), Tail(rest))

SortOrders(orders) == SortFrom(<< >>, orders)

\* the data-order-id attribute written from order.id, and parseInt of it
IdAttribute(n) == << n \div 10, n % 10 >>
parseInt(s) == s[1] * 10 + s[2]

\* a number assigned to an input's value: its decimal digits
NumberToString(n) == << n \div 10, n % 10 >>

\* the JSON array [] that allProducts starts as
EmptyArray == [ kind |-> "array", items |-> << >> ]

\* one order card: the button only for a pending order
OrderCard(order) ==
  [ order |-> order, button |-> (order.status = "pending"), listeners |-> 0 ]

\* the click listener added to every .update-status-btn of the document
AttachListeners(cards) ==
  [ i \in DOMAIN cards |->
      IF cards[i].button THEN [ cards[i] EXCEPT !.listeners = @ + 1 ]
      ELSE cards[i] ]

\* loadAndDisplayOrders after its await: the list that replaces the old one
LoadAndDisplay(old, orders) ==
  IF Len(orders) = 0 THEN [ cards |-> << >>, note |-> TRUE ]
  ELSE LET sorted == SortOrders(orders)
           cleared == << >>
       IN [ cards |-> AttachListeners(
                        cleared \o [ i \in DOMAIN sorted |-> OrderCard(sorted[i]) ]),
            note |-> FALSE ]

(* --------------------- updateOrderStatus (webhook) --------------------- *)
MsgUpdated(id, st) == << "Order #", id, " status updated to ", st >>
MsgNotFound(id) == << "Order #", id, " not found" >>
MsgUpdateRefused == << "Error updating order: ", "result.error" >>
MsgUpdateFailed == << "Error updating order status: ", "error.message" >>

\* mutant: the status is flipped instead of set
SetStatus_Toggle(order, newStatus) ==
  [ order EXCEPT !.status = IF @ = "pending" THEN "completed" ELSE "pending" ]

\* mutant: the record is written back as it was read
SetStatus_Keep(order, newStatus) == order

\* order.status = newStatus on the record getOrderById returned
SetStatus(order, newStatus) == [ order EXCEPT !.status = newStatus ]

\* after the await of getOrderById: the record to write back, or the message
UpdAfterRead(id, newStatus, got) ==
  IF got # << >>
  THEN [ write |-> << SetStatus(got[1], newStatus) >>, alert |-> << >> ]
  ELSE [ write |-> << >>, alert |-> MsgNotFound(id) ]

\* mutant: only the status of the record is sent and merged into the row
UpdateAtBackend_StatusOnly(d, order, outcome) ==
  IF outcome \in {"ok", "lost"}
  THEN LET r == SheetsGetOrderById(d, order.id)
           w == IF r = << >> THEN SheetsUpdateOrder(d, order)
                ELSE SheetsUpdateOrder(d, [ r[1] EXCEPT !.status = order.status ])
       IN [ db |-> w.db,
            outcome |-> IF outcome = "lost" THEN "lost"
                        ELSE IF w.reply.success THEN "ok" ELSE "nonsuccess" ]
  ELSE [ db |-> d, outcome |-> outcome ]

\* what the updateOrder request of updateOrderStatus does to the rows
UpdateAtBackend(d, order, outcome) ==
  IF outcome \in {"ok", "lost"}
  THEN LET r == SheetsUpdateOrder(d, order)
       IN [ db |-> r.db,
            outcome |-> IF outcome = "lost" THEN "lost"
                        ELSE IF r.reply.success THEN "ok" ELSE "nonsuccess" ]
  ELSE [ db |-> d, outcome |-> outcome ]

\* how the write's fetch and response.json() end for the caller
WriteResult(outcome) ==
  CASE outcome \in {"transport", "lost", "unparsable"} -> "throw"
    [] outcome = "nonsuccess" -> "refused"
    [] OTHER -> "success"

\* after the await of the write: whether the list is reloaded, and the message
UpdAfterWrite(id, newStatus, result) ==
  CASE result = "throw" ->
         [ reload |-> FALSE, alert |-> MsgUpdateFailed ]
    [] result = "refused" ->
         [ reload |-> FALSE, alert |-> MsgUpdateRefused ]
    [] OTHER -> [ reload |-> TRUE, alert |-> MsgUpdated(id, newStatus) ]

(* ------------------------------ the catalog ---------------------------- *)
\* how the fetch of products.json ends: answered 200; rejected with the
\* message Chromium gives; rejected with the message other browsers give;
\* answered with a non-success status; answered 200 with a body
\* response.json() rejects
FetchOutcomes == {"ok", "failedToFetch", "networkError", "http", "unparsable"}

\* the bodies response.json() accepts: the catalog, [], a JSON object, and an
\* array whose item has no id, price or image
CatalogBody ==
  [ kind |-> "array",
    items |-> CHOOSE s \in [1..2 -> Catalog] : s[1].id < s[2].id ]

ObjectBody == [ kind |-> "object", items |-> << >> ]

BadItemsBody == [ kind |-> "array", items |-> << [ name |-> "Mint" ] >> ]

Bodies == { CatalogBody, EmptyArray, ObjectBody, BadItemsBody }

\* the message of the error the try block ends with, as the pieces of text
\* it is made of
ErrorMessage(out) ==
  CASE out = "failedToFetch" -> << "Failed to fetch" >>
    [] out = "networkError" ->
         << "NetworkError when attempting to fetch resource." >>
    [] out = "http" -> << "HTTP error! status: ", "404" >>
    [] OTHER -> << "Unexpected token" >>

ThrowError(msg) == [ kind |-> "throw", value |-> msg ]

\* String.prototype.includes on a message
Includes(msg, piece) == \E i \in DOMAIN msg : msg[i] = piece

\* the product grid: a paragraph or the cards, whose buttons listen once
\* renderProducts has reached the end of its loop
EmptyGrid == [ message |-> << >>, cards |-> << >>, listening |-> FALSE ]

GridCouldNotLoad ==
  [ message |->
      << "Could not load flavors. Please run this page through a web server." >>,
    cards |-> << >>, listening |-> FALSE ]

GridNoFlavors ==
  [ message |-> << "No flavors found!" >>, cards |-> << >>,
    listening |-> FALSE ]

\* the try block of loadProducts: the value assigned to allProducts
loadProductsBody(out, body) ==
  IF out = "ok" THEN Return(body) ELSE ThrowError(ErrorMessage(out))

\* loadProducts on a page whose grid shows g (hasGrid: the page has a
\* product grid): how the promise settles, allProducts and the grid after it
loadProducts(proto, out, body, hasGrid, g) ==
  LET r == loadProductsBody(out, body)
  IN IF r.kind = "return"
       THEN [ settled |-> "resolved", allProducts |-> r.value, grid |-> g ]
     ELSE IF proto = "file:" \/ Includes(r.value, "Failed to fetch")
       THEN [ settled |-> "resolved", allProducts |-> EmptyArray, grid |-> g ]
     ELSE [ settled |-> "resolved", allProducts |-> EmptyArray,
            grid |-> IF hasGrid THEN GridCouldNotLoad ELSE g ]

\* the card of one product
ProductCard(p) ==
  [ name |-> IF "name" \in DOMAIN p THEN p.name ELSE "undefined",
    dataId |-> IF "id" \in DOMAIN p THEN IdAttribute(p.id) ELSE << >> ]

\* the items before the first one whose price has no toFixed
RECURSIVE CardsOf(_)
CardsOf(items) ==
  IF items = << >> \/ "price" \notin DOMAIN Head(items)
    THEN << >>
    ELSE << ProductCard(Head(items)) >> \o CardsOf(Tail(items))

\* renderProducts: the grid it leaves, and whether it threw on the way
renderProducts(products) ==
  IF products.kind # "array"
    THEN [ grid |-> EmptyGrid, threw |-> TRUE ]
  ELSE IF Len(products.items) = 0
    THEN [ grid |-> GridNoFlavors, threw |-> FALSE ]
  ELSE LET cards == CardsOf(products.items)
           done == Len(cards) = Len(products.items)
       IN [ grid |-> [ message |-> << >>, cards |-> cards, listening |-> done ],
            threw |-> ~done ]

\* allProducts.find((p) => p.id == productId)
FindProduct(products, productId) ==
  IF products.kind # "array"
    THEN [ kind |-> "throw" ]
  ELSE LET hits == { i \in DOMAIN products.items :
                       /\ "id" \in DOMAIN products.items[i]
                       /\ products.items[i].id = parseInt(productId) }
       IN IF hits = {}
            THEN [ kind |-> "none" ]
            ELSE [ kind |-> "found",
                   product |->
                     products.items[CHOOSE i \in hits : \A j \in hits : i <= j] ]

MsgProductNotFound == << "Product not found." >>

\* initProductDetailPage: where the tab is afterwards and what alert() showed
initProductDetailPage(products, stored) ==
  IF stored = << >>
    THEN [ page |-> "productsLoading", alert |-> << >> ]
  ELSE LET f == FindProduct(products, stored[1])
       IN CASE f.kind = "throw" -> [ page |-> "detailBroken", alert |-> << >> ]
            [] f.kind = "none" ->
                 [ page |-> "productsLoading", alert |-> MsgProductNotFound ]
            [] OTHER -> [ page |-> "detail", alert |-> << >> ]

\* the quantity buttons' handlers: the input's value afterwards
QtyMinusValue_NoFloor(v) ==
  NumberToString(parseInt(v) - 1)

QtyMinusValue(v) ==
  LET currentQty == parseInt(v)
  IN IF currentQty > 1 THEN NumberToString(currentQty - 1) ELSE v

QtyPlusValue(v) == NumberToString(parseInt(v) + 1)

NoFetch ==
  [ outcome |-> "none", body |-> EmptyArray, settled |-> "none",
    shown |-> EmptyGrid ]

(* ---------------------------- the admin gate --------------------------- *)
CorrectPassword == "scoopadmin123"

\* what an admin may type into the password field
Passwords == {"", CorrectPassword, "scoopadmin124"}

MsgIncorrectPassword == << "Incorrect password. Please try again." >>

\* showPasswordPrompt: the click listener is the function checkPassword, added
\* once however often it is registered; every call adds one more anonymous
\* keypress listener
showPasswordPrompt(g) ==
  [ g EXCEPT !.dash = FALSE, !.prompt = TRUE, !.submitListening = TRUE,
             !.enterListeners = @ + 1 ]

\* showOrdersDashboard up to its await
DashboardShown(g) ==
  [ g EXCEPT !.prompt = FALSE, !.dash = TRUE, !.logoutBtn = TRUE ]

\* checkPassword on s = [flag, gate, alert, entries]: entries counts the calls
\* of showOrdersDashboard
checkPassword_AcceptsAny(s) ==
  [ s EXCEPT !.flag = TRUE, !.gate = DashboardShown(@),
             !.entries = @ + 1 ]

checkPassword(s) ==
  IF s.gate.field = CorrectPassword
    THEN [ s EXCEPT !.flag = TRUE, !.gate = DashboardShown(@),
                    !.entries = @ + 1 ]
    ELSE [ s EXCEPT !.alert = MsgIncorrectPassword, !.gate.field = "" ]

\* the keypress listeners run one after the other
RECURSIVE CheckPasswordTimes(_, _)
CheckPasswordTimes(n, s) ==
  IF n = 0 THEN s ELSE CheckPasswordTimes(n - 1, checkPassword(s))

\* logout on s = [flag, gate]
logout_KeepFlag(s) ==
  [ flag |-> s.flag,
    gate |-> showPasswordPrompt([ s.gate EXCEPT !.dash = FALSE,
                                                !.logoutBtn = FALSE ]) ]

logout(s) ==
  [ flag |-> FALSE,
    gate |-> showPasswordPrompt([ s.gate EXCEPT !.dash = FALSE,
                                                !.logoutBtn = FALSE ]) ]

\* initAdminOrdersPage on a page just loaded, whose gate is g
initAdminOrdersPage(flag, g) ==
  IF flag
    THEN [ gate |-> DashboardShown(g), entries |-> 1 ]
    ELSE [ gate |-> showPasswordPrompt(g), entries |-> 0 ]

(* ------------------------------- Init ---------------------------------- *)
Ev(t, s, b) == [ type |-> t, sid |-> s, ok |-> b, who |-> "customer" ]

\* a step of admin a's page; c is the click it belongs to (0 for none)
EvAdmin(t, c, b, a) == [ type |-> t, sid |-> c, ok |-> b, who |-> a ]

NoView == [ cards |-> << >>, note |-> FALSE ]

NoProbe ==
  [ op |-> "none", outcome |-> "ok", failed |-> FALSE, result |-> Return(<< >>) ]

InitAdminVars ==
  /\ view = [ a \in Admins |-> NoView ]
  /\ loads = [ a \in Admins |-> << >> ]
  /\ upds = [ a \in Admins |-> << >> ]
  /\ adminAlert = [ a \in Admins |-> << >> ]
  /\ lastRender = [ a \in Admins |-> [ fetched |-> << >>, click |-> 0, older |-> 0 ] ]
  /\ nLoads = 0
  /\ nClicks = 0
  /\ clicked = [ c \in 1..MaxClicks |-> 0 ]
  /\ invoked = [ c \in 1..MaxClicks |-> 0 ]
  /\ probe = NoProbe

\* the customer's pages before the catalog is fetched
InitCatalogVars ==
  /\ protocol = "http:"
  /\ allProducts = EmptyArray
  /\ grid = EmptyGrid
  /\ selected = << >>
  /\ qty = NumberToString(1)
  /\ lastFetch = NoFetch

\* the admins' pages before they are opened, nobody authenticated
NoGate ==
  [ prompt |-> FALSE, dash |-> FALSE, logoutBtn |-> FALSE,
    logoutListening |-> FALSE, submitListening |-> FALSE, enterListeners |-> 0,
    field |-> "" ]

InitGateVars ==
  /\ adminFlag = [ a \in Admins |-> FALSE ]
  /\ gate = [ a \in Admins |-> NoGate ]

Init ==
  /\ variant \in Variants
  /\ now = ClockStart
  /\ db = << >>
  /\ page = "detail"
  /\ signedIn = FALSE
  /\ navLink = LoginLink
  /\ listening = FALSE
  /\ form = EmptyForm
  /\ nEdits = 0
  /\ cart = << >>
  /\ modal = FALSE
  /\ alertMsg = << >>
  /\ saves = << >>
  /\ nSubmit = 0
  /\ issued = [ s \in 1..MaxSubmits |-> 0 ]
  /\ ev = Ev("init", 0, FALSE)
  /\ InitAdminVars
  /\ InitCatalogVars
  /\ InitGateVars

(* ---------------------------- page loads ------------------------------- *)
\* a page load: the form, the modal, the link and the pending callbacks of
\* the page left behind are gone; script.js runs checkAuthStatus on every page
LoadPage(p) ==
  /\ page' = p
  /\ form' = EmptyForm
  /\ modal' = FALSE
  /\ saves' = << >>
  /\ IF variant = "firestore"
     THEN navLink' = updateAuthUI(LoginLink, signedIn) /\ listening' = TRUE
     ELSE navLink' = LoginLink /\ listening' = FALSE

\* "Proceed to Order" on the product detail page
ProceedToOrder(p, q) ==
  /\ page = "detail"
  /\ cart' = << JsonStringifyItem([ id |-> p.id, name |-> p.name,
                                    price |-> p.price, quantity |-> q,
                                    image |-> p.image ]) >>
  /\ LoadPage("orderInit")
  /\ ev' = Ev("proceed", 0, FALSE)
  /\ UNCHANGED << variant, now, db, signedIn, nEdits, alertMsg, nSubmit, issued,
                  adminVars,
                  catalogVars, gateVars >>

\* the user opens (or reloads) the detail page or the order page
OpenPage(p) ==
  /\ LoadPage(p)
  /\ ev' = Ev("open", 0, FALSE)
  /\ UNCHANGED << variant, now, db, signedIn, nEdits, cart, alertMsg, nSubmit,
                  issued, adminVars,
                  catalogVars, gateVars >>

\* initOrderPage: in the Firestore variant the continuation of
\* isUserSignedIn(), which registers the submit handler only for a signed-in
\* user (after checkAuthStatus's continuation of the same auth event)
InitOrderPage ==
  /\ page = "orderInit"
  /\ IF variant = "sheets"
     THEN /\ page' = "order"
          /\ UNCHANGED << navLink, listening, form, alertMsg >>
     ELSE IF ~signedIn
     THEN /\ alertMsg' = MsgPleaseLogIn
          /\ page' = "login"
          /\ navLink' = LoginLink
          /\ listening' = TRUE
          /\ UNCHANGED form
     ELSE /\ page' = "order"
          /\ navLink' = updateAuthUI(navLink, signedIn)
          /\ form' = [ form EXCEPT !.email = UserEmail ]
          /\ UNCHANGED << listening, alertMsg >>
  /\ ev' = Ev("initOrderPage", 0, signedIn)
  /\ UNCHANGED << variant, now, db, signedIn, nEdits, cart, modal, saves,
                  nSubmit, issued, adminVars,
                  catalogVars, gateVars >>

(* -------------------------- Identity Provider -------------------------- *)
\* a sign-in on the login page; the auth state listener then runs updateAuthUI
SignIn ==
  /\ variant = "firestore"
  /\ page = "login"
  /\ ~signedIn
  /\ signedIn' = TRUE
  /\ navLink' = IF listening THEN updateAuthUI(navLink, TRUE) ELSE navLink
  /\ ev' = Ev("signIn", 0, FALSE)
  /\ UNCHANGED << variant, now, db, page, listening, form, nEdits, cart, modal,
                  alertMsg, saves, nSubmit, issued, adminVars,
                  catalogVars, gateVars >>

\* a click on the navigation link while its onclick is the sign-out handler
NavLogoutClick ==
  /\ variant = "firestore"
  /\ navLink.onclick = "signOut"
  /\ signedIn' = FALSE
  /\ navLink' = IF listening THEN updateAuthUI(navLink, FALSE) ELSE navLink
  /\ ev' = Ev("signOut", 0, FALSE)
  /\ UNCHANGED << variant, now, db, page, listening, form, nEdits, cart, modal,
                  alertMsg, saves, nSubmit, issued, adminVars,
                  catalogVars, gateVars >>

(* ---------------------------- the order form --------------------------- *)
FillForm(f) ==
  /\ page = "order"
  /\ nEdits < MaxEdits
  /\ f # form
  /\ form' = f
  /\ nEdits' = nEdits + 1
  /\ ev' = Ev("fill", 0, FALSE)
  /\ UNCHANGED << variant, now, db, page, signedIn, navLink, listening, cart,
                  modal, alertMsg, saves, nSubmit, issued, adminVars,
                  catalogVars, gateVars >>

\* a submit event of the order form; d is the time passing between the
\* handler's two readings of the clock
Submit(d) ==
  /\ page = "order"
  /\ nSubmit < MaxSubmits
  /\ now + d <= ClockStart + MaxTicks
  /\ LET h == SubmitHandler(form, cart, now, now + d)
         sid == nSubmit + 1
     IN /\ saves' = saves \o
                    [ i \in 1..Len(h.call) |->
                        [ sid |-> sid, order |-> h.call[i], stage |-> "sent",
                          ret |-> Return(FALSE) ] ]
        /\ alertMsg' = IF h.alert # << >> THEN h.alert ELSE alertMsg
        /\ issued' = [ issued EXCEPT ![sid] = @ + Len(h.call) ]
        /\ nSubmit' = sid
        /\ ev' = Ev("submit", sid, FALSE)
  /\ now' = now + d
  /\ UNCHANGED << variant, db, page, signedIn, navLink, listening, form, nEdits,
                  cart, modal, adminVars,
                  catalogVars, gateVars >>

\* the backend handles (or loses) the request of a saveOrder call, which
\* decides how saveOrder will settle
SaveAtBackend(i, o) ==
  /\ i \in DOMAIN saves
  /\ saves[i].stage = "sent"
  /\ o \in BackendOutcomes(variant)
  /\ LET r == SaveOrderAtBackend(variant, db, saves[i].order, o)
     IN /\ db' = r.db
        /\ saves' = [ saves EXCEPT ![i].stage = "replied",
                                   ![i].ret = saveOrder(variant, r.outcome) ]
  /\ ev' = Ev("saveAtBackend", saves[i].sid, FALSE)
  /\ UNCHANGED << variant, now, page, signedIn, navLink, listening, form, nEdits,
                  cart, modal, alertMsg, nSubmit, issued, adminVars,
                  catalogVars, gateVars >>

RemoveAt(s, i) == SubSeq(s, 1, i - 1) \o SubSeq(s, i + 1, Len(s))

\* saveOrder settles and the submit handler's continuation runs
SaveSettled(i) ==
  /\ i \in DOMAIN saves
  /\ saves[i].stage = "replied"
  /\ LET r == saves[i].ret
         e == OnSaveSettled(r)
     IN /\ modal' = (modal \/ e.showModal)
        /\ cart' = IF e.removeCart THEN << >> ELSE cart
        /\ alertMsg' = IF e.alert # << >> THEN e.alert ELSE alertMsg
        /\ ev' = Ev("saveSettled", saves[i].sid, r = Return(TRUE))
  /\ saves' = RemoveAt(saves, i)
  /\ UNCHANGED << variant, now, db, page, signedIn, navLink, listening, form,
                  nEdits, nSubmit, issued, adminVars,
                  catalogVars, gateVars >>

\* the modal's close button: back to the home page
CloseModal ==
  /\ page = "order"
  /\ modal
  /\ LoadPage("index")
  /\ ev' = Ev("closeModal", 0, FALSE)
  /\ UNCHANGED << variant, now, db, signedIn, nEdits, cart, alertMsg, nSubmit,
                  issued, adminVars,
                  catalogVars, gateVars >>

Tick ==
  /\ now < ClockStart + MaxTicks
  /\ now' = now + 1
  /\ ev' = Ev("tick", 0, FALSE)
  /\ UNCHANGED << variant, db, page, signedIn, navLink, listening, form, nEdits,
                  cart, modal, alertMsg, saves, nSubmit, issued, adminVars,
                  catalogVars, gateVars >>


(* --------------------------- the admin page ---------------------------- *)
NewLoad(c) == [ stage |-> "sent", ret |-> Return(<< >>), click |-> c ]

\* showOrdersDashboard: the dashboard is shown and loadAndDisplayOrders starts
ShowOrdersDashboard(a) ==
  /\ variant = "sheets"
  /\ nLoads < MaxLoads
  /\ nLoads' = nLoads + 1
  /\ loads' = [ loads EXCEPT ![a] = Append(@, NewLoad(0)) ]
  /\ gate' = [ gate EXCEPT ![a] = DashboardShown(@) ]
  /\ ev' = EvAdmin("admin", 0, FALSE, a)
  /\ UNCHANGED << catalogVars, adminFlag, probe, variant, now, db, page, signedIn, navLink, listening, form,
                  nEdits, cart, modal, alertMsg, saves, nSubmit, issued, view,
                  upds, adminAlert, lastRender, nClicks, clicked, invoked >>

\* the backend answers (or loses) a getAllOrders request, which decides how
\* getAllOrders will settle
LoadAtBackend(a, i, o) ==
  /\ i \in DOMAIN loads[a]
  /\ loads[a][i].stage = "sent"
  /\ o \in BackendOutcomes(variant)
  /\ loads' = [ loads EXCEPT ![a][i].stage = "replied",
                             ![a][i].ret =
                               getAllOrders(variant, o,
                                            GetAllAtBackend(variant, db, o)) ]
  /\ ev' = EvAdmin("admin", 0, FALSE, a)
  /\ UNCHANGED << catalogVars, gateVars, probe, variant, now, db, page, signedIn, navLink, listening, form,
                  nEdits, cart, modal, alertMsg, saves, nSubmit, issued, view,
                  upds, adminAlert, lastRender, nLoads, nClicks, clicked,
                  invoked >>

\* loadAndDisplayOrders resumes with the result of getAllOrders; the run
\* showOrdersDashboard awaited (click 0) is followed by the rest of
\* showOrdersDashboard, which makes the logout button listen
LoadRender(a, i) ==
  /\ i \in DOMAIN loads[a]
  /\ loads[a][i].stage = "replied"
  /\ LET r == loads[a][i].ret
     IN /\ r.kind = "return"
        /\ view' = [ view EXCEPT ![a] = LoadAndDisplay(@, r.value) ]
        /\ lastRender' = [ lastRender EXCEPT ![a] =
                             [ fetched |-> r.value, click |-> loads[a][i].click,
                               older |-> i - 1 ] ]
        /\ ev' = EvAdmin("admin", 0, FALSE, a)
  /\ loads' = [ loads EXCEPT ![a] = RemoveAt(@, i) ]
  /\ gate' = [ gate EXCEPT ![a].logoutListening = @ \/ loads[a][i].click = 0 ]
  /\ UNCHANGED << catalogVars, adminFlag, probe, variant, now, db, page, signedIn, navLink, listening, form,
                  nEdits, cart, modal, alertMsg, saves, nSubmit, issued, upds,
                  adminAlert, nLoads, nClicks, clicked, invoked >>

NewUpd(id, st, c) ==
  [ orderId |-> id, newStatus |-> st, pc |-> "reading", order |-> << >>,
    click |-> c ]

\* a click on the "Mark as Complete" button of card k: every listener of the
\* button calls updateOrderStatus(parseInt(data-order-id), 'completed')
ClickComplete(a, k) ==
  /\ k \in DOMAIN view[a].cards
  /\ view[a].cards[k].button
  /\ nClicks < MaxClicks
  /\ LET c == nClicks + 1
         id == parseInt(IdAttribute(view[a].cards[k].order.id))
         n == view[a].cards[k].listeners
     IN /\ nClicks' = c
        /\ clicked' = [ clicked EXCEPT ![c] = view[a].cards[k].order.id ]
        /\ invoked' = [ invoked EXCEPT ![c] = n ]
        /\ upds' = [ upds EXCEPT ![a] =
                       @ \o [ j \in 1..n |-> NewUpd(id, "completed", c) ] ]
  /\ ev' = EvAdmin("admin", 0, FALSE, a)
  /\ UNCHANGED << catalogVars, gateVars, probe, variant, now, db, page, signedIn, navLink, listening, form,
                  nEdits, cart, modal, alertMsg, saves, nSubmit, issued, view,
                  loads, adminAlert, lastRender, nLoads >>

\* the getOrderById request of an update is answered (or lost) and
\* updateOrderStatus resumes: it sends the changed record back, or reports the
\* id as not found and ends
UpdRead(a, j, o) ==
  /\ j \in DOMAIN upds[a]
  /\ upds[a][j].pc = "reading"
  /\ o \in BackendOutcomes(variant)
  /\ LET u == upds[a][j]
         r == GetByIdAtBackend(variant, db, u.orderId, o)
         got == getOrderById(variant, r.outcome, r.order)
         e == UpdAfterRead(u.orderId, u.newStatus, got.value)
     IN /\ got.kind = "return"
        /\ IF e.write # << >>
           THEN /\ upds' = [ upds EXCEPT ![a][j].pc = "writing",
                                         ![a][j].order = e.write ]
                /\ UNCHANGED adminAlert
           ELSE /\ upds' = [ upds EXCEPT ![a] = RemoveAt(@, j) ]
                /\ adminAlert' = [ adminAlert EXCEPT ![a] = e.alert ]
  /\ ev' = EvAdmin("admin", 0, FALSE, a)
  /\ UNCHANGED << catalogVars, gateVars, probe, variant, now, db, page, signedIn, navLink, listening, form,
                  nEdits, cart, modal, alertMsg, saves, nSubmit, issued, view,
                  loads, lastRender, nLoads, nClicks, clicked, invoked >>

\* the updateOrder request of an update is handled (or lost) and
\* updateOrderStatus resumes: on success it starts loadAndDisplayOrders (not
\* awaited) and alerts; else it alerts
UpdWrite(a, j, o) ==
  /\ j \in DOMAIN upds[a]
  /\ upds[a][j].pc = "writing"
  /\ o \in BackendOutcomes(variant)
  /\ LET u == upds[a][j]
         r == UpdateAtBackend(db, u.order[1], o)
         e == UpdAfterWrite(u.orderId, u.newStatus, WriteResult(r.outcome))
     IN /\ db' = r.db
        /\ loads' = [ loads EXCEPT ![a] =
                        IF e.reload THEN Append(@, NewLoad(u.click)) ELSE @ ]
        /\ adminAlert' = [ adminAlert EXCEPT ![a] = e.alert ]
  /\ upds' = [ upds EXCEPT ![a] = RemoveAt(@, j) ]
  /\ ev' = EvAdmin("admin", 0, FALSE, a)
  /\ UNCHANGED << catalogVars, gateVars, probe, variant, now, page, signedIn, navLink, listening, form,
                  nEdits, cart, modal, alertMsg, saves, nSubmit, issued, view,
                  lastRender, nLoads, nClicks, clicked, invoked >>

(* --------------------------- specification ----------------------------- *)
Next ==
  \/ \E p \in Catalog, q \in 1..MaxQty : ProceedToOrder(p, q)
  \/ \E p \in {"detail", "orderInit"} : OpenPage(p)
  \/ InitOrderPage
  \/ SignIn
  \/ NavLogoutClick
  \/ \E f \in FormInputs : FillForm(f)
  \/ \E d \in {0, 1} : Submit(d)
  \/ \E i \in 1..MaxSubmits, o \in Outcomes : SaveAtBackend(i, o)
  \/ \E i \in 1..MaxSubmits : SaveSettled(i)
  \/ CloseModal
  \/ Tick

Spec == Init /\ [][Next]_vars

\* The admin dashboard of the webhook variant, next to a customer whose first
\* order was persisted although its answer was lost: the order page is still
\* open with the form filled in and the item in the cart, so the customer may
\* submit again. This is a state of Spec (AdminStartReached).
FirstForm ==
  [ name |-> "Ann", email |-> UserEmail, phone |-> "555",
    address |-> "1 Cone St", deliveryType |-> "delivery" ]

FirstItem ==
  [ id |-> 2, name |-> "Mango", price |-> 3, quantity |-> 2, image |-> "m.png" ]

AdminStart ==
  /\ variant = "sheets"
  /\ now = ClockStart
  /\ db = << [ key |-> ClockStart,
               data |-> BuildOrder(FirstForm, FirstItem, ClockStart, ClockStart),
               createdAt |-> 0 ] >>
  /\ page = "order"
  /\ signedIn = FALSE
  /\ navLink = LoginLink
  /\ listening = FALSE
  /\ form = FirstForm
  /\ nEdits = 1
  /\ cart = << JsonStringifyItem(FirstItem) >>
  /\ modal = FALSE
  /\ alertMsg = MsgSaveError
  /\ saves = << >>
  /\ nSubmit = 1
  /\ issued = [ s \in 1..MaxSubmits |-> IF s = 1 THEN 1 ELSE 0 ]
  /\ ev = [ type |-> "saveSettled", sid |-> 1, ok |-> FALSE, who |-> "customer" ]

\* the admins have passed the gate before; their pages are not open yet
InitAdmin ==
  /\ AdminStart
  /\ InitAdminVars
  /\ InitCatalogVars
  /\ adminFlag = [ a \in Admins |-> TRUE ]
  /\ gate = [ a \in Admins |-> NoGate ]

NextAdmin ==
  \/ \E d \in {0, 1} : Submit(d)
  \/ \E i \in 1..MaxSubmits, o \in Outcomes : SaveAtBackend(i, o)
  \/ \E i \in 1..MaxSubmits : SaveSettled(i)
  \/ Tick
  \/ \E a \in Admins : ShowOrdersDashboard(a)
  \/ \E a \in Admins, i \in 1..(MaxLoads + MaxClicks), o \in Outcomes :
       LoadAtBackend(a, i, o)
  \/ \E a \in Admins, i \in 1..(MaxLoads + MaxClicks) : LoadRender(a, i)
  \/ \E a \in Admins, k \in 1..MaxSubmits : ClickComplete(a, k)
  \/ \E a \in Admins, j \in 1..MaxClicks, o \in Outcomes : UpdRead(a, j, o)
  \/ \E a \in Admins, j \in 1..MaxClicks, o \in Outcomes : UpdWrite(a, j, o)

SpecAdmin == InitAdmin /\ [][NextAdmin]_vars

\* the start of SpecAdmin is a state of the order flow
AdminStartReached == AdminStart

(* ------------------- the adapters, called one by one ------------------- *)
\* The five adapter functions called directly, each with every outcome its
\* backend can produce, on whatever orders earlier calls have persisted.
Range(xs) == { xs[i] : i \in DOMAIN xs }

ProbeOrders ==
  { BuildOrder(FirstForm, item, t, t) :
      item \in { FirstItem, [ FirstItem EXCEPT !.quantity = 1 ] },
      t \in { ClockStart, ClockStart + 1 } }

\* the orders a caller may hold: new ones, and listed ones marked completed
HeldOrders ==
  ProbeOrders
    \cup { SetStatus(o, "completed") :
             o \in Range(GetAllAtBackend(variant, db, "ok")) }

ProbeIds == Keys(db) \cup { ClockStart, ClockStart + 1 }

Probed(op, outcome, failed, result) ==
  /\ probe' = [ op |-> op, outcome |-> outcome, failed |-> failed,
                result |-> result ]
  /\ UNCHANGED << variant, now, page, signedIn, navLink, listening, form,
                  nEdits, cart, modal, alertMsg, saves, nSubmit, issued, ev,
                  view, loads, upds, adminAlert, lastRender, nLoads, nClicks,
                  clicked, invoked, catalogVars, gateVars >>

ProbeSaveOrder(order, o) ==
  /\ Len(db) < MaxRows
  /\ LET r == SaveOrderAtBackend(variant, db, order, o)
     IN /\ db' = r.db
        /\ Probed("saveOrder", r.outcome, r.outcome # "ok",
                  saveOrder(variant, r.outcome))

ProbeGetAllOrders(o) ==
  /\ db' = db
  /\ Probed("getAllOrders", o, o # "ok",
            getAllOrders(variant, o, GetAllAtBackend(variant, db, o)))

ProbeGetOrderById(id, o) ==
  /\ db' = db
  /\ LET r == GetByIdAtBackend(variant, db, id, o)
     IN Probed("getOrderById", r.outcome, r.outcome # "ok" \/ r.order = << >>,
               getOrderById(variant, r.outcome, r.order))

ProbeUpdateOrder(order, o) ==
  LET r == UpdateOrderAtBackend(variant, db, order, o)
  IN /\ db' = r.db
     /\ Probed("updateOrder", r.outcome, r.outcome # "ok",
               updateOrder(variant, r.outcome))

\* updateOrderStatus of the webhook variant: its read, then its write
ProbeUpdateOrderStatusSheets(id, o1, o2) ==
  /\ variant = "sheets"
  /\ LET g == GetByIdAtBackend(variant, db, id, o1)
         a == UpdAfterRead(id, "completed",
                           getOrderById(variant, g.outcome, g.order).value)
     IN IF a.write = << >>
        THEN /\ db' = db
             /\ Probed("updateOrderStatus", g.outcome, TRUE,
                       updateOrderStatus("notfound"))
        ELSE LET w == UpdateAtBackend(db, a.write[1], o2)
             IN /\ db' = w.db
                /\ Probed("updateOrderStatus", w.outcome, w.outcome # "ok",
                          updateOrderStatus(WriteResult(w.outcome)))

ProbeUpdateOrderStatusFirestore(id, o) ==
  /\ variant = "firestore"
  /\ LET r == FirestoreSetStatusAtBackend(db, id, "completed", o)
     IN /\ db' = r.db
        /\ Probed("updateOrderStatus", o, r.result # "success",
                  updateOrderStatus(r.result))

InitAdapter == Init

NextAdapter ==
  \/ \E order \in ProbeOrders, o \in BackendOutcomes(variant) :
       ProbeSaveOrder(order, o)
  \/ \E o \in BackendOutcomes(variant) : ProbeGetAllOrders(o)
  \/ \E id \in ProbeIds, o \in BackendOutcomes(variant) :
       ProbeGetOrderById(id, o)
  \/ \E order \in HeldOrders, o \in BackendOutcomes(variant) :
       ProbeUpdateOrder(order, o)
  \/ \E id \in ProbeIds, o1 \in Outcomes, o2 \in Outcomes :
       ProbeUpdateOrderStatusSheets(id, o1, o2)
  \/ \E id \in ProbeIds, o \in BackendOutcomes(variant) :
       ProbeUpdateOrderStatusFirestore(id, o)

SpecAdapter == InitAdapter /\ [][NextAdapter]_vars

(* ------------------ concurrent updaters of one order ------------------- *)
\* The dashboards of the webhook variant next to another caller of the
\* adapter, who changes the phone number of a listed order with updateOrder.
EditedPhone == "556"

EditedOrders ==
  { [ o EXCEPT !.customerPhone = EditedPhone ] :
      o \in Range(GetAllAtBackend(variant, db, "ok")) }

InitRace == InitAdmin

NextRace ==
  \/ \E a \in Admins : ShowOrdersDashboard(a)
  \/ \E a \in Admins, i \in 1..(MaxLoads + MaxClicks), o \in Outcomes :
       LoadAtBackend(a, i, o)
  \/ \E a \in Admins, i \in 1..(MaxLoads + MaxClicks) : LoadRender(a, i)
  \/ \E a \in Admins, k \in 1..MaxSubmits : ClickComplete(a, k)
  \/ \E a \in Admins, j \in 1..MaxClicks, o \in Outcomes : UpdRead(a, j, o)
  \/ \E a \in Admins, j \in 1..MaxClicks, o \in Outcomes : UpdWrite(a, j, o)
  \/ \E order \in EditedOrders, o \in Outcomes : ProbeUpdateOrder(order, o)

SpecRace == InitRace /\ [][NextRace]_vars

(* ------------------- the products and detail pages --------------------- *)
\* DOMContentLoaded on the products page: loadProducts, then initProductsPage
ProductsPageLoad(out, body) ==
  /\ page = "productsLoading"
  /\ protocol = "file:" => out \in {"failedToFetch", "networkError"}
  /\ out # "ok" => body = EmptyArray
  /\ LET lp == loadProducts(protocol, out, body, TRUE, EmptyGrid)
     IN /\ allProducts' = lp.allProducts
        /\ grid' = renderProducts(lp.allProducts).grid
        /\ lastFetch' = [ outcome |-> out, body |-> body,
                          settled |-> lp.settled, shown |-> lp.grid ]
  /\ LoadPage("products")
  /\ ev' = Ev("productsPage", 0, FALSE)
  /\ UNCHANGED << variant, now, db, signedIn, nEdits, cart, alertMsg, nSubmit,
                  issued, adminVars, gateVars, protocol, selected, qty >>

\* a click on the "View Details" button of card k
ViewDetails(k) ==
  /\ page = "products"
  /\ grid.listening
  /\ k \in DOMAIN grid.cards
  /\ selected' = << grid.cards[k].dataId >>
  /\ LoadPage("detailLoading")
  /\ ev' = Ev("viewDetails", 0, FALSE)
  /\ UNCHANGED << variant, now, db, signedIn, nEdits, cart, alertMsg, nSubmit,
                  issued, adminVars, gateVars, protocol, allProducts, grid,
                  qty, lastFetch >>

\* DOMContentLoaded on the detail page: loadProducts, then
\* initProductDetailPage; q0 is the value the page gives the quantity input
DetailPageLoad(out, body, q0) ==
  /\ page = "detailLoading"
  /\ protocol = "file:" => out \in {"failedToFetch", "networkError"}
  /\ out # "ok" => body = EmptyArray
  /\ LET lp == loadProducts(protocol, out, body, FALSE, EmptyGrid)
         d == initProductDetailPage(lp.allProducts, selected)
     IN /\ allProducts' = lp.allProducts
        /\ grid' = lp.grid
        /\ lastFetch' = [ outcome |-> out, body |-> body,
                          settled |-> lp.settled, shown |-> lp.grid ]
        /\ LoadPage(d.page)
        /\ alertMsg' = IF d.alert = << >> THEN alertMsg ELSE d.alert
        /\ qty' = IF d.page = "detail" THEN NumberToString(q0) ELSE qty
  /\ ev' = Ev("detailPage", 0, FALSE)
  /\ UNCHANGED << variant, now, db, signedIn, nEdits, cart, nSubmit, issued,
                  adminVars, gateVars, protocol, selected >>

\* the "-" button
QtyMinus ==
  /\ page = "detail"
  /\ qty' = QtyMinusValue(qty)
  /\ ev' = Ev("qtyMinus", 0, FALSE)
  /\ UNCHANGED << variant, now, db, page, signedIn, navLink, listening, form,
                  nEdits, cart, modal, alertMsg, saves, nSubmit, issued,
                  adminVars, gateVars, protocol, allProducts, grid, selected,
                  lastFetch >>

\* the "+" button
QtyPlus ==
  /\ page = "detail"
  /\ parseInt(qty) < MaxQty
  /\ qty' = QtyPlusValue(qty)
  /\ ev' = Ev("qtyPlus", 0, FALSE)
  /\ UNCHANGED << variant, now, db, page, signedIn, navLink, listening, form,
                  nEdits, cart, modal, alertMsg, saves, nSubmit, issued,
                  adminVars, gateVars, protocol, allProducts, grid, selected,
                  lastFetch >>

\* "Proceed to Order" for the product the detail page found, with
\* parseInt of the quantity input's value
DetailProceed ==
  /\ selected # << >>
  /\ LET f == FindProduct(allProducts, selected[1])
     IN /\ f.kind = "found"
        /\ ProceedToOrder(f.product, parseInt(qty))

InitCatalog ==
  /\ variant \in Variants
  /\ now = ClockStart
  /\ db = << >>
  /\ page = "productsLoading"
  /\ signedIn = FALSE
  /\ navLink = LoginLink
  /\ listening = FALSE
  /\ form = EmptyForm
  /\ nEdits = 0
  /\ cart = << >>
  /\ modal = FALSE
  /\ alertMsg = << >>
  /\ saves = << >>
  /\ nSubmit = 0
  /\ issued = [ s \in 1..MaxSubmits |-> 0 ]
  /\ ev = Ev("init", 0, FALSE)
  /\ InitAdminVars
  /\ protocol \in {"http:", "file:"}
  /\ allProducts = EmptyArray
  /\ grid = EmptyGrid
  /\ selected = << >>
  /\ qty = NumberToString(1)
  /\ lastFetch = NoFetch
  /\ InitGateVars

NextCatalog ==
  \/ \E out \in FetchOutcomes, body \in Bodies : ProductsPageLoad(out, body)
  \/ \E k \in 1..2 : ViewDetails(k)
  \/ \E out \in FetchOutcomes, body \in Bodies, q0 \in 1..MaxQty :
       DetailPageLoad(out, body, q0)
  \/ QtyMinus
  \/ QtyPlus
  \/ DetailProceed
  \/ \E p \in {"productsLoading", "detailLoading"} : OpenPage(p)

SpecCatalog == InitCatalog /\ [][NextCatalog]_vars

(* ------------------------- the admin page's gate ----------------------- *)
\* admin a opens (or reloads) the admin page: what the page left behind had
\* rendered or awaited is gone, and initAdminOrdersPage runs
AdminPageLoad(a) ==
  LET r == initAdminOrdersPage(adminFlag[a], NoGate)
  IN /\ variant = "sheets"
     /\ nLoads + r.entries <= MaxEntries
     /\ nLoads' = nLoads + r.entries
     /\ gate' = [ gate EXCEPT ![a] = r.gate ]
     /\ loads' = [ loads EXCEPT ![a] =
                     IF r.entries = 1 THEN << NewLoad(0) >> ELSE << >> ]
     /\ upds' = [ upds EXCEPT ![a] = << >> ]
     /\ view' = [ view EXCEPT ![a] = NoView ]
     /\ lastRender' = [ lastRender EXCEPT ![a] =
                          [ fetched |-> << >>, click |-> 0, older |-> 0 ] ]
     /\ ev' = EvAdmin("adminPageLoad", 0, adminFlag[a], a)
     /\ UNCHANGED << customerVars, catalogVars, adminFlag, adminAlert, nClicks,
                     clicked, invoked, probe >>

\* admin a types t into the password field
TypePassword(a, t) ==
  /\ gate[a].prompt
  /\ gate' = [ gate EXCEPT ![a].field = t ]
  /\ ev' = EvAdmin("typePassword", 0, FALSE, a)
  /\ UNCHANGED << customerVars, catalogVars, adminFlag, view, loads, upds,
                  adminAlert, lastRender, nLoads, nClicks, clicked, invoked,
                  probe >>

\* n runs of checkPassword in admin a's page; every showOrdersDashboard they
\* call starts a loadAndDisplayOrders
PasswordEntered(a, n, t) ==
  LET s == CheckPasswordTimes(n, [ flag |-> adminFlag[a], gate |-> gate[a],
                                   alert |-> adminAlert[a], entries |-> 0 ])
  IN /\ nLoads + s.entries <= MaxEntries
     /\ nLoads' = nLoads + s.entries
     /\ adminFlag' = [ adminFlag EXCEPT ![a] = s.flag ]
     /\ gate' = [ gate EXCEPT ![a] = s.gate ]
     /\ adminAlert' = [ adminAlert EXCEPT ![a] = s.alert ]
     /\ loads' = [ loads EXCEPT ![a] =
                     @ \o [ i \in 1..s.entries |-> NewLoad(0) ] ]
     /\ ev' = EvAdmin(t, n, s.entries > 0, a)
     /\ UNCHANGED << customerVars, catalogVars, view, upds, lastRender,
                     nClicks, clicked, invoked, probe >>

\* a click on the submit button: its one listener
SubmitPassword(a) ==
  /\ gate[a].prompt
  /\ gate[a].submitListening
  /\ PasswordEntered(a, 1, "submitPassword")

\* Enter in the password field: every keypress listener registered so far
EnterPassword(a) ==
  /\ gate[a].prompt
  /\ gate[a].enterListeners > 0
  /\ PasswordEntered(a, gate[a].enterListeners, "enterPassword")

\* a click on the logout button
LogoutClick(a) ==
  /\ gate[a].dash
  /\ gate[a].logoutBtn
  /\ gate[a].logoutListening
  /\ LET r == logout([ flag |-> adminFlag[a], gate |-> gate[a] ])
     IN /\ adminFlag' = [ adminFlag EXCEPT ![a] = r.flag ]
        /\ gate' = [ gate EXCEPT ![a] = r.gate ]
  /\ ev' = EvAdmin("logout", 0, FALSE, a)
  /\ UNCHANGED << customerVars, catalogVars, view, loads, upds, adminAlert,
                  lastRender, nLoads, nClicks, clicked, invoked, probe >>

\* one order is persisted, its item is still in the cart and its product is
\* still the selected one; nobody has passed the gate
InitGate ==
  /\ AdminStart
  /\ InitAdminVars
  /\ InitGateVars
  /\ protocol = "http:"
  /\ allProducts = CatalogBody
  /\ grid = EmptyGrid
  /\ selected = << IdAttribute(FirstItem.id) >>
  /\ qty = NumberToString(FirstItem.quantity)
  /\ lastFetch = [ outcome |-> "ok", body |-> CatalogBody,
                   settled |-> "resolved", shown |-> EmptyGrid ]

NextGate ==
  \/ \E a \in Admins : AdminPageLoad(a)
  \/ \E a \in Admins, t \in Passwords : TypePassword(a, t)
  \/ \E a \in Admins : SubmitPassword(a)
  \/ \E a \in Admins : EnterPassword(a)
  \/ \E a \in Admins : LogoutClick(a)
  \/ \E a \in Admins, i \in 1..MaxEntries, o \in Outcomes :
       LoadAtBackend(a, i, o)
  \/ \E a \in Admins, i \in 1..MaxEntries : LoadRender(a, i)

SpecGate == InitGate /\ [][NextGate]_vars

(* ------------------- updateOrderStatus called directly ----------------- *)
\* Both variants: updateOrderStatus called from a page for any id, next to
\* callers of saveOrder and updateOrder.

\* after the await of the Firestore update: the message; script.js defines no
\* loadAndDisplayOrders, so nothing is reloaded
UpdAfterUpdate(id, newStatus, result) ==
  IF result = "success"
  THEN [ reload |-> FALSE, alert |-> MsgUpdated(id, newStatus) ]
  ELSE [ reload |-> FALSE, alert |-> MsgUpdateFailed ]

\* updateOrderStatus(id, 'completed') is called in a's page: the webhook
\* variant sends its getOrderById request, the Firestore variant its update
CallUpdateOrderStatus(a, id) ==
  /\ nClicks < MaxClicks
  /\ nClicks' = nClicks + 1
  /\ upds' = [ upds EXCEPT ![a] =
                 Append(@, [ NewUpd(id, "completed", 0) EXCEPT
                               !.pc = IF variant = "sheets" THEN "reading"
                                      ELSE "updating" ]) ]
  /\ ev' = EvAdmin("admin", 0, FALSE, a)
  /\ UNCHANGED << customerVars, catalogVars, gateVars, view, loads, adminAlert,
                  lastRender, nLoads, clicked, invoked, probe >>

\* the Firestore update of a call is handled (or fails) and updateOrderStatus
\* resumes with its alert
UpdFirestore(a, j, o) ==
  /\ variant = "firestore"
  /\ j \in DOMAIN upds[a]
  /\ upds[a][j].pc = "updating"
  /\ o \in BackendOutcomes(variant)
  /\ LET u == upds[a][j]
         r == FirestoreSetStatusAtBackend(db, u.orderId, u.newStatus, o)
         e == UpdAfterUpdate(u.orderId, u.newStatus, r.result)
     IN /\ db' = r.db
        /\ adminAlert' = [ adminAlert EXCEPT ![a] = e.alert ]
  /\ upds' = [ upds EXCEPT ![a] = RemoveAt(@, j) ]
  /\ ev' = EvAdmin("admin", 0, FALSE, a)
  /\ UNCHANGED << catalogVars, gateVars, probe, variant, now, page, signedIn,
                  navLink, listening, form, nEdits, cart, modal, alertMsg,
                  saves, nSubmit, issued, view, loads, lastRender, nLoads,
                  nClicks, clicked, invoked >>

\* the records another caller of updateOrder holds: a persisted order under
\* the key it is persisted under, with a new phone number
KeyedOrders ==
  { [ db[i].data EXCEPT !.id = db[i].key, !.customerPhone = EditedPhone ] :
      i \in DOMAIN db }

\* the page updateOrderStatus is called from
Caller == "a1"

InitStatus == Init

NextStatus ==
  \/ \E order \in ProbeOrders, o \in BackendOutcomes(variant) :
       ProbeSaveOrder(order, o)
  \/ \E id \in ProbeIds : CallUpdateOrderStatus(Caller, id)
  \/ \E a \in Admins, j \in 1..MaxClicks, o \in Outcomes : UpdRead(a, j, o)
  \/ \E a \in Admins, j \in 1..MaxClicks, o \in Outcomes : UpdWrite(a, j, o)
  \/ \E a \in Admins, j \in 1..MaxClicks, o \in Outcomes : UpdFirestore(a, j, o)
  \/ \E a \in Admins, i \in 1..MaxClicks, o \in Outcomes :
       LoadAtBackend(a, i, o)
  \/ \E a \in Admins, i \in 1..MaxClicks : LoadRender(a, i)
  \/ \E order \in KeyedOrders, o \in BackendOutcomes(variant) :
       ProbeUpdateOrder(order, o)

SpecStatus == InitStatus /\ [][NextStatus]_vars

(* ------------------------------- claims -------------------------------- *)
FieldsFilled(f) == f.name # "" /\ f.email # "" /\ f.phone # ""

RequiredNames == {"Name", "Email", "Phone"}

\* the required fields that are empty, by the name the form gives them
EmptyFields(f) ==
  { n \in RequiredNames :
      \/ n = "Name" /\ f.name = ""
      \/ n = "Email" /\ f.email = ""
      \/ n = "Phone" /\ f.phone = "" }

\* the required-field names a message lists
ListedFields(msg) == { msg[i] : i \in DOMAIN msg } \cap RequiredNames

SaveCallsOf(s) == { i \in DOMAIN saves : saves[i].sid = s }

\* C1: after a submit event with name, email and phone filled and a cart item
\* present, exactly one createOrder call has been issued for that event; and
\* when a createOrder call reports success the cart item is absent, the
\* confirmation modal is visible and that call was the only one of its event.
C1_SuccessClearsCartOnce ==
  /\ (ev.type = "submit" /\ FieldsFilled(form) /\ cart # << >>)
       => (issued[ev.sid] = 1 /\ Cardinality(SaveCallsOf(ev.sid)) = 1)
  /\ (ev.type = "saveSettled" /\ ev.ok)
       => (cart = << >> /\ modal /\ issued[ev.sid] = 1)

C1_Witness ==
  /\ ev.type = "saveSettled" /\ ev.ok
  /\ cart = << >> /\ modal /\ issued[ev.sid] = 1 /\ Len(db) >= 1

\* C2: after a submit event with name, email or phone empty no createOrder
\* call was issued for it, and the alert shown is the missing-fields message,
\* listing exactly the required fields that are empty, each once.
C2_MissingFieldsReported ==
  (ev.type = "submit" /\ ~FieldsFilled(form))
    => /\ issued[ev.sid] = 0
       /\ SaveCallsOf(ev.sid) = {}
       /\ alertMsg[1] = MsgMissingPrefix
       /\ ListedFields(alertMsg) = EmptyFields(form)
       /\ Len(alertMsg) = 2 * Cardinality(EmptyFields(form)) + 1

C2_Witness ==
  /\ ev.type = "submit"
  /\ form.name # "" /\ form.email = "" /\ form.phone = ""
  /\ alertMsg = << MsgMissingPrefix, "Email", ", ", "Phone", "." >>
  /\ issued[ev.sid] = 0

\* C3: in the Firestore variant, a submit event at which no user is signed in
\* issues no createOrder call and leaves the user on the sign-in page.
C3_SignedOutSubmitBlocked ==
  (variant = "firestore" /\ ev.type = "submit" /\ ~signedIn)
    => (issued[ev.sid] = 0 /\ page = "login")

\* C4: every order handed to createOrder, and every persisted order, has one
\* line item and a total equal to that item's price times its quantity.
TotalIsProduct(o) ==
  Len(o.items) = 1 /\ o.total = o.items[1].price * o.items[1].quantity

C4_TotalIsPriceTimesQuantity ==
  /\ \A i \in DOMAIN saves : TotalIsProduct(saves[i].order)
  /\ \A j \in DOMAIN db : TotalIsProduct(db[j].data)

C4_Witness ==
  \E j \in DOMAIN db :
    /\ db[j].data.items[1].price = 3
    /\ db[j].data.items[1].quantity = 2
    /\ db[j].data.total = 6

\* C6: the cart item leaves Selection State only in the step in which a
\* createOrder call reports success; a call that reports failure leaves the
\* cart item, the form and the page as they were and shows the save-error
\* message; a submit event that issues no call leaves the cart item and the
\* form as they were and shows a message; and every submit event with the
\* required fields filled and a cart item present (a resubmission after a
\* failure included) issues a new createOrder call.
C6_Step ==
  /\ (cart # << >> /\ cart' = << >>) => (ev'.type = "saveSettled" /\ ev'.ok)
  /\ (ev'.type = "saveSettled" /\ ~ev'.ok)
       => /\ cart' = cart /\ form' = form /\ page' = page /\ modal' = modal
          /\ alertMsg' = MsgSaveError
  /\ (ev'.type = "submit" /\ issued'[ev'.sid] = 0)
       => /\ cart' = cart /\ form' = form
          /\ alertMsg' \in {MsgNoItems, MsgMissing(form)}
  /\ (ev'.type = "submit" /\ FieldsFilled(form) /\ cart # << >>)
       => /\ issued'[ev'.sid] = 1
          /\ Len(saves') = Len(saves) + 1
          /\ saves'[Len(saves')].stage = "sent"

C6_CartKeptUnlessSaved == [][C6_Step]_vars

\* a resubmission after a failed save: the error message is still the last
\* one shown, the cart item is still there and a second call is in flight
C6_Witness ==
  /\ ev.type = "submit" /\ ev.sid = 2 /\ issued[2] = 1
  /\ alertMsg = MsgSaveError /\ cart # << >> /\ saves # << >>

\* C7: a submit event with the required fields filled and no cart item issues
\* no createOrder call and shows the no-items message; a submit event with a
\* required field empty never shows that message; the two messages differ.
C7_EmptyCartReportedApart ==
  /\ (ev.type = "submit" /\ FieldsFilled(form) /\ cart = << >>)
       => (issued[ev.sid] = 0 /\ SaveCallsOf(ev.sid) = {} /\ alertMsg = MsgNoItems)
  /\ (ev.type = "submit" /\ ~FieldsFilled(form))
       => (alertMsg # MsgNoItems /\ alertMsg = MsgMissing(form))

C7_Witness ==
  /\ ev.type = "submit" /\ FieldsFilled(form) /\ cart = << >>
  /\ alertMsg = MsgNoItems /\ issued[ev.sid] = 0

\* C5: a persisted order whose status is 'completed' stays 'completed' in
\* every step (submissions and updates of any admin interleaved), and a card of
\* an admin's list carries the "Mark as Complete" button only if the status it
\* lists is 'pending'.
C5_StatusStep ==
  \A i \in DOMAIN db :
    db[i].data.status = "completed"
      => (i \in DOMAIN db' /\ db'[i].key = db[i].key
          /\ db'[i].data.status = "completed")

C5_ButtonOnlyForPending ==
  \A a \in Admins : \A k \in DOMAIN view[a].cards :
    view[a].cards[k].button => view[a].cards[k].order.status = "pending"

C5_StatusMonotonic == [] C5_ButtonOnlyForPending /\ [][C5_StatusStep]_vars

RowOf(id) == CHOOSE i \in DOMAIN db : db[i].key = id

\* an order one admin has completed while another admin's update of the same
\* order is between its read and its write
C5_Witness ==
  \E a \in Admins, b \in Admins :
    /\ a # b
    /\ \E j \in DOMAIN upds[a] :
         /\ upds[a][j].pc = "writing"
         /\ adminAlert[b] = MsgUpdated(upds[a][j].orderId, "completed")
         /\ db[RowOf(upds[a][j].orderId)].data.status = "completed"
         /\ upds[a][j].order[1].items = db[RowOf(upds[a][j].orderId)].data.items

\* C8: a rendered (non-empty) order list is a permutation of the getAllOrders
\* result it was rendered from, and each card's orderDate is not earlier than
\* the next card's.
CountIn(xs, x) == Cardinality({ i \in DOMAIN xs : xs[i] = x })

IsPermutation(xs, ys) ==
  /\ Len(xs) = Len(ys)
  /\ \A i \in DOMAIN xs : CountIn(xs, xs[i]) = CountIn(ys, xs[i])

CardOrders(a) == [ k \in DOMAIN view[a].cards |-> view[a].cards[k].order ]

C8_RenderedNewestFirst ==
  \A a \in Admins :
    view[a].cards # << >>
      => /\ IsPermutation(CardOrders(a), lastRender[a].fetched)
         /\ \A k \in 1..(Len(view[a].cards) - 1) :
              DateParse(view[a].cards[k].order.orderDate)
                >= DateParse(view[a].cards[k + 1].order.orderDate)

\* a list of two orders of different dates, which the sort has reordered
C8_Witness ==
  \E a \in Admins :
    /\ Len(view[a].cards) = 2
    /\ DateParse(view[a].cards[1].order.orderDate)
         > DateParse(view[a].cards[2].order.orderDate)
    /\ lastRender[a].fetched[1] = view[a].cards[2].order

\* C9: every click on a "Mark as Complete" button has called
\* updateOrderStatus once, with the id of the clicked card's order and
\* 'completed'; the step in which an update's write is accepted starts a
\* getAllOrders run for that click and leaves every rendered list as it was;
\* and the list rendered from that run shows the order as completed, with the
\* "Completed" label in place of the button.
C9_CalledOncePerClick ==
  /\ \A c \in 1..nClicks : invoked[c] = 1
  /\ \A a \in Admins : \A j \in DOMAIN upds[a] :
       /\ upds[a][j].click \in 1..nClicks
       /\ upds[a][j].orderId = clicked[upds[a][j].click]
       /\ upds[a][j].newStatus = "completed"

C9_RerenderedCompleted ==
  \A a \in Admins :
    (lastRender[a].click > 0 /\ ~view[a].note)
      => /\ \E k \in DOMAIN view[a].cards :
              view[a].cards[k].order.id = clicked[lastRender[a].click]
         /\ \A k \in DOMAIN view[a].cards :
              view[a].cards[k].order.id = clicked[lastRender[a].click]
                => /\ view[a].cards[k].order.status = "completed"
                   /\ ~view[a].cards[k].button
                   /\ view[a].cards[k].listeners = 0

C9_AcceptedWriteStep ==
  \A a \in Admins : \A j \in DOMAIN upds[a] :
    ( /\ upds[a][j].pc = "writing"
      /\ upds'[a] = RemoveAt(upds[a], j)
      /\ adminAlert'[a] = MsgUpdated(upds[a][j].orderId, "completed") )
      => /\ loads'[a] = Append(loads[a], NewLoad(upds[a][j].click))
         /\ view' = view
         /\ db'[RowOf(upds[a][j].orderId)].data.status = "completed"

C9_RerenderedAlways ==
  \A a \in Admins :
    lastRender[a].click > 0
      => \E k \in DOMAIN view[a].cards :
           /\ view[a].cards[k].order.id = clicked[lastRender[a].click]
           /\ view[a].cards[k].order.status = "completed"
           /\ ~view[a].cards[k].button

C10_AdaptersFailSoft ==
  /\ probe.result.kind = "return"
  /\ probe.failed
       => CASE probe.op \in {"saveOrder", "updateOrder"} ->
                 probe.result.value = FALSE
            [] probe.op \in {"getOrderById", "getAllOrders"} ->
                 probe.result.value = << >>
            [] OTHER -> TRUE

\* an update whose reply could not be parsed, after orders were persisted
C10_Witness ==
  /\ probe.op = "updateOrder"
  /\ probe.outcome = "unparsable"
  /\ probe.failed
  /\ db # << >>

\* C11: a direct call of updateOrderStatus returns a boolean in both variants:
\* true when the new status was persisted, false when the order was not found
\* or the write failed.
C11_ReturnsSuccessBoolean ==
  probe.op = "updateOrderStatus"
    => /\ probe.result.kind = "return"
       /\ probe.result.value = JsBoolean(~probe.failed)

\* C12: no two persisted orders carry the same id in the result of listOrders,
\* whatever submissions were made (also at the same reading of the clock).
C12_ListedIdsUnique ==
  LET listed == GetAllAtBackend(variant, db, "ok")
  IN \A i \in DOMAIN listed : \A j \in DOMAIN listed :
       i # j => listed[i].id # listed[j].id

\* C20: the order a submit event hands to createOrder has status 'pending',
\* exactly one line item whose id, name, price and quantity are those of the
\* cart item stored at that moment, without an image field, and the customer
\* fields and delivery type of the form as it was submitted.
HandedBy(sid) == { i \in DOMAIN saves' : saves'[i].sid = sid }

C20_Step ==
  (ev'.type = "submit" /\ nSubmit' = nSubmit + 1 /\ issued'[nSubmit'] > 0)
    => /\ cart # << >>
       /\ HandedBy(nSubmit') # {}
       /\ \A i \in HandedBy(nSubmit') :
            LET o == saves'[i].order
                item == JsonParseItem(cart[1])
            IN /\ o.status = "pending"
               /\ Len(o.items) = 1
               /\ DOMAIN o.items[1] = {"id", "name", "price", "quantity"}
               /\ o.items[1].id = item.id
               /\ o.items[1].name = item.name
               /\ o.items[1].price = item.price
               /\ o.items[1].quantity = item.quantity
               /\ o.customerName = form.name
               /\ o.customerEmail = form.email
               /\ o.customerPhone = form.phone
               /\ o.customerAddress = form.address
               /\ o.deliveryType = form.deliveryType

C20_OrderMirrorsCartAndForm == [][C20_Step]_vars

\* a delivery order for two scoops handed to createOrder
C20_Witness ==
  /\ ev.type = "submit"
  /\ \E i \in DOMAIN saves :
       /\ saves[i].sid = ev.sid
       /\ saves[i].order.deliveryType = "delivery"
       /\ saves[i].order.customerAddress # ""
       /\ saves[i].order.items[1].quantity = 2
       /\ saves[i].order.status = "pending"

\* C18: in the Firestore variant every order returned by getAllOrders or
\* getOrderById carries as its id the identifier of the document it was read
\* from (so that the listed order, or its id, addresses that document in
\* updateOrder and updateOrderStatus).
DocKeyOfListed(i) == db[Len(db) + 1 - i].key

C18_ListedIdIsDocumentId ==
  (variant = "firestore" /\ ~probe.failed)
    => /\ probe.op = "getAllOrders"
          => \A i \in DOMAIN probe.result.value :
               probe.result.value[i].id = DocKeyOfListed(i)
       /\ probe.op = "getOrderById"
          => \A i \in DOMAIN probe.result.value :
               probe.result.value[i].id \in Keys(db)

\* C19: in the webhook variant updateOrderStatus reads the order in one step
\* and writes the whole record it read, with the new status, in a later one:
\* an accepted write leaves the row equal to that record whatever was written
\* to the row in between, so a change another updater made after the read is
\* overwritten (the witness is such a lost update).
C19_ReadStep ==
  \A a \in Admins : \A j \in DOMAIN upds[a] :
    ( /\ upds[a][j].pc = "reading"
      /\ Len(upds'[a]) = Len(upds[a])
      /\ upds'[a][j].pc = "writing" )
      => /\ db' = db
         /\ upds'[a][j].order
              = << SetStatus(db[RowOf(upds[a][j].orderId)].data,
                             upds[a][j].newStatus) >>

C19_WriteStep ==
  \A a \in Admins : \A j \in DOMAIN upds[a] :
    ( /\ upds[a][j].pc = "writing"
      /\ upds'[a] = RemoveAt(upds[a], j)
      /\ adminAlert'[a] = MsgUpdated(upds[a][j].orderId, upds[a][j].newStatus) )
      => db'[RowOf(upds[a][j].orderId)].data = upds[a][j].order[1]

C19_StaleRecordWins == [][C19_ReadStep /\ C19_WriteStep]_vars

\* the other caller's updateOrder succeeded, and the phone number it wrote is
\* gone again: an update that had read the order before wrote it back
C19_Witness ==
  /\ probe.op = "updateOrder"
  /\ ~probe.failed
  /\ \E a \in Admins : adminAlert[a] = MsgUpdated(ClockStart, "completed")
  /\ db[1].data.status = "completed"
  /\ db[1].data.customerPhone = FirstForm.phone

\* C15: when the catalog fetch fails with a network error while the page is
\* not served over the file: protocol, then after the initialisation of the
\* products page the grid shows the 'Could not load flavors' message and
\* allProducts is empty.
C15_NetworkFailureShown ==
  ( /\ page = "products"
    /\ protocol # "file:"
    /\ lastFetch.outcome \in {"failedToFetch", "networkError"} )
    => /\ grid = GridCouldNotLoad
       /\ allProducts = EmptyArray

\* a body that is a sequence of products
IsProduct(x) == {"id", "name", "price", "image"} \subseteq DOMAIN x

WellFormed(body) ==
  /\ body.kind = "array"
  /\ \A i \in DOMAIN body.items : IsProduct(body.items[i])

\* C16: loadProducts never propagates a failure: after a transport failure,
\* a non-success HTTP status or a malformed response body it has resolved
\* and allProducts is the empty sequence; allProducts is non-empty only
\* when the fetch succeeded with a well-formed product sequence.
C16_LoadProductsFailsSoft ==
  lastFetch.outcome # "none"
    => /\ lastFetch.settled = "resolved"
       /\ (lastFetch.outcome # "ok" \/ ~WellFormed(lastFetch.body))
            => allProducts = EmptyArray
       /\ allProducts # EmptyArray
            => (lastFetch.outcome = "ok" /\ WellFormed(lastFetch.body))

\* C17: on the detail page the quantity is an integer >= 1; "-" at 1 leaves
\* it at 1 and at n > 1 gives n - 1, "+" at n gives n + 1, and the quantity
\* "Proceed to Order" stores in the cart item is the input's value, >= 1.
C17_Step ==
  /\ ev'.type = "qtyMinus"
       => IF parseInt(qty) = 1
            THEN qty' = qty
            ELSE qty' = NumberToString(parseInt(qty) - 1)
  /\ ev'.type = "qtyPlus" => qty' = NumberToString(parseInt(qty) + 1)
  /\ ev'.type = "proceed"
       => /\ cart' # << >>
          /\ JsonParseItem(cart'[1]).quantity = parseInt(qty)
          /\ JsonParseItem(cart'[1]).quantity >= 1
  /\ page' = "detail" => parseInt(qty') >= 1

C17_StepperFloorsAtOne == [][C17_Step]_vars

\* a decrement at 1 has left the input at 1
C17_Witness ==
  /\ page = "detail"
  /\ ev.type = "qtyMinus"
  /\ qty = NumberToString(1)

\* C13: the 'adminAuthenticated' flag is set and the dashboard is shown
\* when, and only when, the entered passphrase equals 'scoopadmin123'; an
\* incorrect entry leaves the flag unset, clears the password field and keeps
\* the prompt shown; a page load with the flag present shows the dashboard
\* without showing the prompt.
C13_Step ==
  \A a \in Admins :
    /\ (ev'.who = a /\ ev'.type \in {"submitPassword", "enterPassword"})
         => IF gate[a].field = CorrectPassword
              THEN /\ adminFlag'[a]
                   /\ gate'[a].dash
                   /\ ~gate'[a].prompt
              ELSE /\ ~adminFlag'[a]
                   /\ gate'[a].field = ""
                   /\ gate'[a].prompt
                   /\ ~gate'[a].dash
                   /\ adminAlert'[a] = MsgIncorrectPassword
    /\ (ev'.who = a /\ ev'.type = "adminPageLoad" /\ adminFlag[a])
         => /\ gate'[a].dash
            /\ ~gate'[a].prompt
    /\ (adminFlag'[a] /\ ~adminFlag[a])
         => /\ ev'.who = a
            /\ ev'.type \in {"submitPassword", "enterPassword"}
            /\ gate[a].field = CorrectPassword
    /\ (gate'[a].dash /\ ~gate[a].dash)
         => /\ ev'.who = a
            /\ \/ /\ ev'.type \in {"submitPassword", "enterPassword"}
                  /\ gate[a].field = CorrectPassword
               \/ ev'.type = "adminPageLoad" /\ adminFlag[a]
    /\ gate'[a].dash => adminFlag'[a]

C13_GateOpensOnlyForPassword == [][C13_Step]_vars

\* a wrong entry after a logout: two keypress listeners have run
C13_Witness ==
  /\ ev.who = "a1"
  /\ ev.type = "enterPassword"
  /\ ev.sid = 2
  /\ ~ev.ok
  /\ gate["a1"].prompt
  /\ gate["a1"].field = ""
  /\ ~adminFlag["a1"]

\* C14: logout removes the flag and returns to the password gate; it issues
\* no adapter call and leaves the persisted orders, the selected product id
\* and the cart item as they were; a page load without the flag, as after a
\* logout, shows the prompt.
C14_Step ==
  \A a \in Admins :
    /\ (ev'.who = a /\ ev'.type = "logout")
         => /\ adminFlag[a] /\ ~adminFlag'[a]
            /\ gate'[a].prompt
            /\ ~gate'[a].dash
            /\ loads' = loads /\ upds' = upds /\ probe' = probe
            /\ db' = db
            /\ selected' = selected
            /\ cart' = cart
    /\ (ev'.who = a /\ ev'.type = "adminPageLoad" /\ ~adminFlag[a])
         => /\ gate'[a].prompt
            /\ ~gate'[a].dash
            /\ loads'[a] = << >>

C14_LogoutReturnsToGate == [][C14_Step]_vars

\* a logout with an order persisted, a product selected and an item in the cart
C14_Witness ==
  /\ ev.type = "logout"
  /\ ev.who = "a1"
  /\ ~adminFlag["a1"]
  /\ gate["a1"].prompt
  /\ db # << >>
  /\ selected # << >>
  /\ cart # << >>

\* the calls of updateOrderStatus in a's page whose id no order is persisted
\* under
AbsentCalls(a) ==
  { j \in DOMAIN upds[a] : upds[a][j].orderId \notin Keys(db) }

\* the messages of updateOrderStatus that carry the order's id
NamesId(msg, id) ==
  \/ msg = MsgNotFound(id)
  \/ \E st \in {"pending", "completed"} : msg = MsgUpdated(id, st)

\* C21: when updateOrderStatus is called with an id for which no order is
\* persisted, no write is issued to the backend, every persisted order is
\* unchanged, the order list is not re-fetched, and the user is shown a
\* message that names the id.
C21_Step ==
  \A a \in Admins : \A j \in AbsentCalls(a) :
    /\ upds[a][j].pc = "reading"
    /\ ~( /\ Len(upds'[a]) = Len(upds[a])
          /\ upds'[a][j].pc \in {"writing", "updating"} )
    /\ upds'[a] = RemoveAt(upds[a], j)
         => /\ db' = db
            /\ loads' = loads
            /\ NamesId(adminAlert'[a], upds[a][j].orderId)

C21_AbsentIdOnlyReported == [][C21_Step]_vars

\* C22: each cart item yields at most one persisted order: when a submit
\* event of the order form fires while the createOrder call of an earlier
\* valid submission is still pending, no createOrder call is issued for it.
C22_Step ==
  ( /\ ev'.type = "submit"
    /\ nSubmit' = nSubmit + 1
    /\ saves # << >> )
    => /\ issued'[nSubmit'] = 0
       /\ saves' = saves

C22_OneOrderPerCartItem == [][C22_Step]_vars

\* C23: in the Firestore variant the update of updateOrderStatus(id, s)
\* changes only the status of the document stored under id: its other fields,
\* as they are at that moment (also those an updateOrder has written in
\* between), and all other documents stay as they are.
C23_Step ==
  \A a \in Admins : \A j \in DOMAIN upds[a] :
    ( /\ variant = "firestore"
      /\ upds[a][j].pc = "updating"
      /\ upds'[a] = RemoveAt(upds[a], j) )
      => /\ Len(db') = Len(db)
         /\ \A i \in DOMAIN db :
              IF db[i].key = upds[a][j].orderId
                THEN db'[i] \in { db[i],
                                  [ db[i] EXCEPT
                                      !.data.status = upds[a][j].newStatus ] }
                ELSE db'[i] = db[i]
         /\ adminAlert'[a] = MsgUpdated(upds[a][j].orderId, upds[a][j].newStatus)
              => \E i \in DOMAIN db' :
                   /\ db'[i].key = upds[a][j].orderId
                   /\ db'[i].data.status = upds[a][j].newStatus

C23_OnlyStatusChanges == [][C23_Step]_vars

\* an updateOrder and an updateOrderStatus have both reached the same
\* document: the new phone number and the new status are both there
C23_Witness ==
  /\ variant = "firestore"
  /\ probe.op = "updateOrder"
  /\ ~probe.failed
  /\ Len(db) = 2
  /\ adminAlert[Caller] = MsgUpdated(db[1].key, "completed")
  /\ db[1].data.status = "completed"
  /\ db[1].data.customerPhone = EditedPhone
  /\ db[2].data.status = "pending"

\* C24: in the Firestore variant, after any sequence of sign-in and sign-out
\* events delivered to the auth state listener, the navigation link reads
\* 'Logout' and signs out on click exactly when a user is signed in, and
\* reads 'Login' with target login.html exactly when no user is signed in.
C24_LinkReflectsAuthState ==
  (variant = "firestore" /\ listening)
    => IF signedIn
         THEN navLink.text = "Logout" /\ navLink.onclick = "signOut"
         ELSE navLink.text = "Login" /\ navLink.href = "login.html"

\* C25: when runs of loadAndDisplayOrders overlap, the result of a call
\* that was issued earlier never replaces the rendering of a call issued
\* after it, so that once all runs have finished the rendered list is the
\* sorted result of the most recently issued call and no completed order is
\* left with its 'Mark as Complete' button. loads[a] is in the order of
\* issue: the run at position i is older than the one on screen when
\* i <= lastRender[a].older.
C25_Step ==
  \A a \in Admins : \A i \in DOMAIN loads[a] :
    ( /\ loads[a][i].stage = "replied"
      /\ loads'[a] = RemoveAt(loads[a], i)
      /\ lastRender'[a].older = i - 1 )
      => /\ i > lastRender[a].older
         /\ loads'[a] = << >>
              => /\ lastRender'[a].fetched = loads[a][i].ret.value
                 /\ view'[a].cards =
                      LoadAndDisplay(view[a], loads[a][i].ret.value).cards

C25_NewestFetchWins == [][C25_Step]_vars

============================================================================
